---- MODULE Spec2Model ----
(***************************************************************************)
(* Rollout orchestrator of flyctl's machines deploy:                       *)
(*   internal/command/deploy/machines_deploymachinesapp.go                 *)
(*   and the launch-input builders (launchInputForRestart / ForLaunch /    *)
(*   ForUpdate).                                                           *)
(*                                                                         *)
(* One run of machineDeployment.DeployMachinesApp is a single thread of    *)
(* control; pc is its position.  Every collaborator call (release status   *)
(* store, release command, lease manager, flaps launch/update/destroy,     *)
(* waits, app-config resolver) returns success or an error, chosen         *)
(* nondeterministically.  An error value is the chain of messages built by *)
(* fmt.Errorf("...: %w", err); the empty chain is nil.                     *)
(***************************************************************************)
EXTENDS Integers, Sequences, FiniteSets, TLC

\* ------------------------------------------------------------------ bounds
\* Largest number of live machines in the machine set when the run starts.
MaxMachines == 2

\* ------------------------------------------------------------ input domain
Strategies == {"immediate", "rolling"}

\* appConfig.ProcessNames(): the declared process groups, in order.
DeclaredChoices == { <<"web">>, <<"web", "worker">> }

\* Process groups a live machine may carry ("stale" is never declared).
MachineGroups == {"web", "stale"}

NoMounts == << >>

Mount(name, path, volume) == [Name |-> name, Path |-> path, Volume |-> volume]

\* Config.Mounts of a live machine: none, or one attached volume.
ExistingMountChoices == { NoMounts, <<Mount("v1", "/data", "vol_a")>> }

\* The [mounts] section of the app config: none, same volume, another volume.
DesiredMountChoices ==
    { NoMounts, <<Mount("v1", "/data", "")>>, <<Mount("v2", "/data", "")>> }

VolumeNames == {"v1", "v2"}

\* md.volumes: unattached volumes by name.
VolumePoolChoices ==
    { [n \in VolumeNames |-> << >>],
      [n \in VolumeNames |-> IF n = "v1" THEN <<"vol_b">> ELSE <<"vol_c">>] }

Regions == <<"ams", "fra", "lhr", "syd", "gru", "nrt">>
PrimaryRegion == "ord"

MachineId(k) == "m" \o ToString(k)
NewMachineId(k) == "n" \o ToString(k)

\* The k-th live machine of the snapshot.
Machine(k, group, mounts) ==
    [ID |-> MachineId(k), Region |-> Regions[((k - 1) % Len(Regions)) + 1],
     Group |-> group, Mounts |-> mounts]

MachineShapes == MachineGroups \X ExistingMountChoices

\* All machine sets of n machines with distinct ids m1..mn.
MachineSetsOfLen(n) ==
    { [k \in 1..n |-> Machine(k, f[k][1], f[k][2])] : f \in [1..n -> MachineShapes] }

MachineSets == UNION { MachineSetsOfLen(n) : n \in 0..MaxMachines }

\* ------------------------------------------------------------------ errors
NoErr == << >>
Err(msg) == <<msg>>
\* fmt.Errorf(msg + ": %w", err)
Wrap(msg, err) == <<msg>> \o err

\* ------------------------------------------------------------------- state
VARIABLES
    restartOnly,       \* md.restartOnly
    strategy,          \* md.strategy
    skipHealthChecks,  \* md.skipHealthChecks
    groupsInConfig,    \* md.appConfig.ProcessNames()
    desiredMounts,     \* the mounts md.appConfig.ToMachineConfig derives
    volumes,           \* md.volumes
    machineSet,        \* md.machineSet.GetMachines()
    pc,                \* position of the run
    err,               \* err of DeployMachinesApp: the pass's result
    result,            \* value returned by DeployMachinesApp
    leasesHeld,        \* AcquireLeases succeeded and ReleaseLeases has not run
    refreshStarted,    \* StartBackgroundLeaseRefresh was called
    releaseCalls,      \* number of ReleaseLeases calls
    relCmdRuns,        \* outcomes of runReleaseCommand calls
    acquireRuns,       \* outcomes of AcquireLeases calls
    diff,              \* processGroupMachineDiff
    toSpawn,           \* groups of groupsNeedingMachines not yet ranged over
    idx,               \* loop index of the current loop
    updateEntries,     \* machineUpdateEntries
    lm,                \* id of the machine the current waits are about
    nextNew,           \* number of machines launched so far
    existing,          \* ids of the machines that exist on the platform
    ops,               \* log of machine operations, in order
    statusWrites       \* log of updateReleaseInBackend calls, in order

inputs == <<restartOnly, strategy, skipHealthChecks, groupsInConfig,
            desiredMounts, volumes>>

vars == <<restartOnly, strategy, skipHealthChecks, groupsInConfig,
          desiredMounts, volumes, machineSet, pc, err, result, leasesHeld,
          refreshStarted, releaseCalls, relCmdRuns, acquireRuns, diff, toSpawn,
          idx, updateEntries, lm, nextNew, existing, ops, statusWrites>>

EmptyDiff ==
    [machinesToRemove |-> << >>, groupsToRemove |-> << >>,
     groupsNeedingMachines |-> {}]

Init ==
    /\ restartOnly \in BOOLEAN
    /\ strategy \in Strategies
    /\ skipHealthChecks \in BOOLEAN
    /\ groupsInConfig \in DeclaredChoices
    /\ desiredMounts \in DesiredMountChoices
    /\ volumes \in VolumePoolChoices
    /\ machineSet \in MachineSets
    /\ pc = "start"
    /\ err = NoErr
    /\ result = NoErr
    /\ leasesHeld = FALSE
    /\ refreshStarted = FALSE
    /\ releaseCalls = 0
    /\ relCmdRuns = << >>
    /\ acquireRuns = << >>
    /\ diff = EmptyDiff
    /\ toSpawn = {}
    /\ idx = 0
    /\ updateEntries = << >>
    /\ lm = ""
    /\ nextNew = 0
    /\ existing = { machineSet[k].ID : k \in 1..Len(machineSet) }
    /\ ops = << >>
    /\ statusWrites = << >>


\* ------------------------------------------------------ launch-input builder
NilInput == [ID |-> "", Region |-> "", Group |-> "", Mounts |-> NoMounts]

\* md.volumes[name]: a name the map does not hold yields the empty slice.
VolumesNamed(name) ==
    IF name \in DOMAIN volumes THEN volumes[name] ELSE << >>

\* md.appConfig.ToMachineConfig(processGroup, src): the resolver either fails
\* or derives a config of that group whose mounts are the declared ones.
ToMachineConfig(processGroup, cfgOk) ==
    IF cfgOk
    THEN [err |-> NoErr, Group |-> processGroup, Mounts |-> desiredMounts]
    ELSE [err |-> Err("app config error"), Group |-> processGroup,
          Mounts |-> NoMounts]

\* Variant: the restart launch input carries no machine id.
launchInputForRestart_DropsId(origMachineRaw) ==
    [ID |-> "", Region |-> origMachineRaw.Region,
     Group |-> origMachineRaw.Group, Mounts |-> origMachineRaw.Mounts]

launchInputForRestart(origMachineRaw) ==
    [ID |-> origMachineRaw.ID, Region |-> origMachineRaw.Region,
     Group |-> origMachineRaw.Group, Mounts |-> origMachineRaw.Mounts]

launchInputForLaunch(processGroup, cfgOk) ==
    LET mConfig == ToMachineConfig(processGroup, cfgOk) IN
    IF mConfig.err # NoErr THEN [err |-> mConfig.err, li |-> NilInput]
    ELSE IF Len(mConfig.Mounts) > 0 /\ Len(VolumesNamed(mConfig.Mounts[1].Name)) = 0
    THEN [err |-> Err("New machine needs an unattached volume"), li |-> NilInput]
    ELSE
      LET mounts ==
            IF Len(mConfig.Mounts) > 0
            THEN [mConfig.Mounts EXCEPT
                    ![1].Volume = VolumesNamed(mConfig.Mounts[1].Name)[1]]
            ELSE mConfig.Mounts
      IN [err |-> NoErr,
          li |-> [ID |-> "", Region |-> PrimaryRegion, Group |-> mConfig.Group,
                  Mounts |-> mounts]]

\* The mount reconciliation of launchInputForUpdate: the id and the mounts of
\* the launch input, or an error.
\* Variant: a renamed mount keeps the machine and its attached volume.
ReconcileMounts_KeepsOnRename(mID, mMounts, oMounts) ==
    IF Len(oMounts) # 0
    THEN CASE Len(mMounts) = 0 ->
                [err |-> NoErr, ID |-> "", Mounts |-> mMounts]
           [] Len(mMounts) # 0 /\ oMounts[1].Name = "" ->
                [err |-> NoErr, ID |-> mID,
                 Mounts |-> [mMounts EXCEPT ![1] = oMounts[1]]]
           [] Len(mMounts) # 0 /\ oMounts[1].Name # ""
                /\ mMounts[1].Name # oMounts[1].Name ->
                IF Len(VolumesNamed(mMounts[1].Name)) = 0
                THEN [err |-> Err("machine needs an unattached volume"),
                      ID |-> mID, Mounts |-> mMounts]
                ELSE [err |-> NoErr, ID |-> mID,
                      Mounts |-> [mMounts EXCEPT ![1] = oMounts[1]]]
           [] Len(mMounts) # 0 /\ oMounts[1].Name # ""
                /\ mMounts[1].Name = oMounts[1].Name
                /\ mMounts[1].Path # oMounts[1].Path ->
                [err |-> NoErr, ID |-> mID,
                 Mounts |-> [mMounts EXCEPT ![1].Volume = oMounts[1].Volume]]
           [] OTHER ->
                [err |-> NoErr, ID |-> mID,
                 Mounts |-> [mMounts EXCEPT ![1] = oMounts[1]]]
    ELSE IF Len(mMounts) # 0
    THEN IF Len(VolumesNamed(mMounts[1].Name)) = 0
         THEN [err |-> Err("machine needs an unattached volume"),
               ID |-> mID, Mounts |-> mMounts]
         ELSE [err |-> NoErr, ID |-> "",
               Mounts |-> [mMounts EXCEPT
                             ![1].Volume = VolumesNamed(mMounts[1].Name)[1]]]
    ELSE [err |-> NoErr, ID |-> mID, Mounts |-> mMounts]

\* Variant: a changed path is treated like a changed volume.
ReconcileMounts_ReassignsOnPathChange(mID, mMounts, oMounts) ==
    IF Len(oMounts) # 0
    THEN CASE Len(mMounts) = 0 ->
                [err |-> NoErr, ID |-> "", Mounts |-> mMounts]
           [] Len(mMounts) # 0 /\ oMounts[1].Name = "" ->
                [err |-> NoErr, ID |-> mID,
                 Mounts |-> [mMounts EXCEPT ![1] = oMounts[1]]]
           [] Len(mMounts) # 0 /\ oMounts[1].Name # ""
                /\ mMounts[1].Name # oMounts[1].Name ->
                IF Len(VolumesNamed(mMounts[1].Name)) = 0
                THEN [err |-> Err("machine needs an unattached volume"),
                      ID |-> mID, Mounts |-> mMounts]
                ELSE [err |-> NoErr, ID |-> "",
                      Mounts |-> [mMounts EXCEPT
                                    ![1].Volume = VolumesNamed(mMounts[1].Name)[1]]]
           [] Len(mMounts) # 0 /\ oMounts[1].Name # ""
                /\ mMounts[1].Name = oMounts[1].Name
                /\ mMounts[1].Path # oMounts[1].Path ->
                IF Len(VolumesNamed(mMounts[1].Name)) = 0
                THEN [err |-> Err("machine needs an unattached volume"),
                      ID |-> mID, Mounts |-> mMounts]
                ELSE [err |-> NoErr, ID |-> "",
                      Mounts |-> [mMounts EXCEPT
                                    ![1].Volume = VolumesNamed(mMounts[1].Name)[1]]]
           [] OTHER ->
                [err |-> NoErr, ID |-> mID,
                 Mounts |-> [mMounts EXCEPT ![1] = oMounts[1]]]
    ELSE IF Len(mMounts) # 0
    THEN IF Len(VolumesNamed(mMounts[1].Name)) = 0
         THEN [err |-> Err("machine needs an unattached volume"),
               ID |-> mID, Mounts |-> mMounts]
         ELSE [err |-> NoErr, ID |-> "",
               Mounts |-> [mMounts EXCEPT
                             ![1].Volume = VolumesNamed(mMounts[1].Name)[1]]]
    ELSE [err |-> NoErr, ID |-> mID, Mounts |-> mMounts]

ReconcileMounts(mID, mMounts, oMounts) ==
    IF Len(oMounts) # 0
    THEN CASE Len(mMounts) = 0 ->
                [err |-> NoErr, ID |-> "", Mounts |-> mMounts]
           [] Len(mMounts) # 0 /\ oMounts[1].Name = "" ->
                [err |-> NoErr, ID |-> mID,
                 Mounts |-> [mMounts EXCEPT ![1] = oMounts[1]]]
           [] Len(mMounts) # 0 /\ oMounts[1].Name # ""
                /\ mMounts[1].Name # oMounts[1].Name ->
                IF Len(VolumesNamed(mMounts[1].Name)) = 0
                THEN [err |-> Err("machine needs an unattached volume"),
                      ID |-> mID, Mounts |-> mMounts]
                ELSE [err |-> NoErr, ID |-> "",
                      Mounts |-> [mMounts EXCEPT
                                    ![1].Volume = VolumesNamed(mMounts[1].Name)[1]]]
           [] Len(mMounts) # 0 /\ oMounts[1].Name # ""
                /\ mMounts[1].Name = oMounts[1].Name
                /\ mMounts[1].Path # oMounts[1].Path ->
                [err |-> NoErr, ID |-> mID,
                 Mounts |-> [mMounts EXCEPT ![1].Volume = oMounts[1].Volume]]
           [] OTHER ->
                [err |-> NoErr, ID |-> mID,
                 Mounts |-> [mMounts EXCEPT ![1] = oMounts[1]]]
    ELSE IF Len(mMounts) # 0
    THEN IF Len(VolumesNamed(mMounts[1].Name)) = 0
         THEN [err |-> Err("machine needs an unattached volume"),
               ID |-> mID, Mounts |-> mMounts]
         ELSE [err |-> NoErr, ID |-> "",
               Mounts |-> [mMounts EXCEPT
                             ![1].Volume = VolumesNamed(mMounts[1].Name)[1]]]
    ELSE [err |-> NoErr, ID |-> mID, Mounts |-> mMounts]

\* Variant: the existing id is always kept (no forced replacement).
launchInputForUpdate_KeepsId(origMachineRaw, cfgOk) ==
    LET mConfig == ToMachineConfig(origMachineRaw.Group, cfgOk) IN
    IF mConfig.err # NoErr THEN [err |-> mConfig.err, li |-> NilInput]
    ELSE
      LET r == ReconcileMounts(origMachineRaw.ID, mConfig.Mounts,
                               origMachineRaw.Mounts)
      IN IF r.err # NoErr THEN [err |-> r.err, li |-> NilInput]
         ELSE [err |-> NoErr,
               li |-> [ID |-> origMachineRaw.ID,
                       Region |-> origMachineRaw.Region,
                       Group |-> mConfig.Group, Mounts |-> r.Mounts]]

launchInputForUpdate(origMachineRaw, cfgOk) ==
    LET mConfig == ToMachineConfig(origMachineRaw.Group, cfgOk) IN
    IF mConfig.err # NoErr THEN [err |-> mConfig.err, li |-> NilInput]
    ELSE
      LET r == ReconcileMounts(origMachineRaw.ID, mConfig.Mounts,
                               origMachineRaw.Mounts)
      IN IF r.err # NoErr THEN [err |-> r.err, li |-> NilInput]
         ELSE [err |-> NoErr,
               li |-> [ID |-> r.ID, Region |-> origMachineRaw.Region,
                       Group |-> mConfig.Group, Mounts |-> r.Mounts]]

\* ------------------------------------------------------ process-group differ
Contains(seq, x) == \E k \in 1..Len(seq) : seq[k] = x

\* Variant: every declared group is reported as needing a machine.
resolveProcessGroupChanges_AllDeclaredNeeded ==
    LET removed == SelectSeq(machineSet,
                             LAMBDA m : ~Contains(groupsInConfig, m.Group))
        removedGroups == { removed[k].Group : k \in 1..Len(removed) }
    IN [machinesToRemove |-> removed,
        groupsToRemove |->
            [g \in removedGroups |->
                Cardinality({ k \in 1..Len(removed) : removed[k].Group = g })],
        groupsNeedingMachines |->
            { groupsInConfig[k] : k \in 1..Len(groupsInConfig) }]

resolveProcessGroupChanges ==
    LET removed == SelectSeq(machineSet,
                             LAMBDA m : ~Contains(groupsInConfig, m.Group))
        removedGroups == { removed[k].Group : k \in 1..Len(removed) }
        groupHasMachine ==
            { machineSet[k].Group : k \in 1..Len(machineSet) }
              \cap { groupsInConfig[k] : k \in 1..Len(groupsInConfig) }
    IN [machinesToRemove |-> removed,
        groupsToRemove |->
            [g \in removedGroups |->
                Cardinality({ k \in 1..Len(removed) : removed[k].Group = g })],
        groupsNeedingMachines |->
            { groupsInConfig[k] : k \in 1..Len(groupsInConfig) } \ groupHasMachine]


\* ------------------------------------------------------------- operation log
\* One machine operation as the platform sees it: which call, in which phase
\* of the pass ("remove", "create", "update"), on which machine, for which
\* update entry (0 outside the executor), its outcome, whether the leases
\* were held, and the volume of the launch input's mount ("" if none).
Op(op, phase, m, entry, ok, vol) ==
    [op |-> op, phase |-> phase, m |-> m, entry |-> entry, ok |-> ok,
     leased |-> leasesHeld, vol |-> vol]

MountVolume(li) == IF Len(li.Mounts) > 0 THEN li.Mounts[1].Volume ELSE ""

\* ----------------------------------------------------- DeployMachinesApp
\* Variant: the status no longer depends on the pass's error.
FinalStatus_AlwaysComplete(e) == "complete"

\* status := "complete"; if err != nil { status = "failed" }
FinalStatus(e) == IF e = NoErr THEN "complete" ELSE "failed"

\* Variant: a failed final status write always becomes the returned error.
FinalErr_Masks(e, updateErr) ==
    IF updateErr # NoErr
    THEN Wrap("failed to set final release status", updateErr)
    ELSE e

\* The value DeployMachinesApp returns after the final status write.
FinalErr(e, updateErr) ==
    IF updateErr # NoErr /\ e = NoErr
    THEN Wrap("failed to set final release status", updateErr)
    ELSE e

StatusWriteErr(ok) == IF ok THEN NoErr ELSE Err("release status write failed")

\* Variant: the error of the "running" write is dropped and the pass starts.
UpdateReleaseRunning_IgnoresError ==
    /\ pc = "start"
    /\ \E ok \in BOOLEAN :
         statusWrites' = Append(statusWrites, [status |-> "running", ok |-> ok])
    /\ pc' = IF restartOnly THEN "restart_acquire" ELSE "release_command"
    /\ UNCHANGED <<inputs, machineSet, err, result, leasesHeld, refreshStarted,
                   releaseCalls, relCmdRuns, acquireRuns, diff, toSpawn, idx,
                   updateEntries, lm, nextNew, existing, ops>>

\* md.updateReleaseInBackend(ctx, "running") and the dispatch on its result.
UpdateReleaseRunning ==
    /\ pc = "start"
    /\ \E ok \in BOOLEAN :
         /\ statusWrites' = Append(statusWrites, [status |-> "running", ok |-> ok])
         /\ IF ok
            THEN /\ pc' = IF restartOnly THEN "restart_acquire" ELSE "release_command"
                 /\ result' = result
            ELSE /\ pc' = "done"
                 /\ result' = Wrap("failed to set release status to 'running'",
                                   StatusWriteErr(ok))
    /\ UNCHANGED <<inputs, machineSet, err, leasesHeld, refreshStarted,
                   releaseCalls, relCmdRuns,
                   acquireRuns, diff, toSpawn, idx, updateEntries,
                   lm, nextNew, existing, ops>>

\* md.updateReleaseInBackend(ctx, status) after the pass, and the return.
UpdateReleaseFinal ==
    /\ pc = "final"
    /\ \E ok \in BOOLEAN :
         /\ statusWrites' =
              Append(statusWrites, [status |-> FinalStatus(err), ok |-> ok])
         /\ result' = FinalErr(err, StatusWriteErr(ok))
    /\ pc' = "done"
    /\ UNCHANGED <<inputs, machineSet, err, leasesHeld, refreshStarted,
                   releaseCalls, relCmdRuns,
                   acquireRuns, diff, toSpawn, idx, updateEntries,
                   lm, nextNew, existing, ops>>

\* ------------------------------------------------------ pass control flow
\* Variant: no deferred ReleaseLeases.
Return_NoDefer(e) == pc' = "final" /\ err' = e

\* A return of a pass after `defer md.machineSet.ReleaseLeases(ctx)`: the
\* deferred call runs before DeployMachinesApp goes on.
Return(e) == pc' = "release_leases" /\ err' = e

\* A return of a pass before the defer statement.
ReturnEarly(e) == pc' = "final" /\ err' = e

\* The deferred md.machineSet.ReleaseLeases(ctx).
ReleaseLeases ==
    /\ pc = "release_leases"
    /\ leasesHeld' = FALSE
    /\ releaseCalls' = releaseCalls + 1
    /\ pc' = "final"
    /\ UNCHANGED <<inputs, machineSet, err, result, refreshStarted, relCmdRuns,
                   acquireRuns,
                   diff, toSpawn, idx, updateEntries, lm, nextNew, existing,
                   ops, statusWrites>>

\* updateExistingMachines(ctx, entries): position before its first entry; with
\* no entry the loop body never runs and the executor returns nil.
PcOfExecutor(entries) ==
    IF Len(entries) > 0 THEN "update_entry" ELSE "release_leases"

\* Position after the creation phase: the loop building the update entries.
PcAfterSpawn(ms) == IF Len(ms) > 0 THEN "build_entry" ELSE PcOfExecutor(<< >>)

\* Position after the removal phase.
PcAfterRemoval(d, ms) ==
    IF d.groupsNeedingMachines # {} THEN "spawn" ELSE PcAfterSpawn(ms)

\* Variant: the removal phase is skipped.
PcAfterDiff_SkipsRemoval(d, ms) == PcAfterRemoval(d, ms)

\* Position after the diff.
PcAfterDiff(d, ms) ==
    IF Len(d.machinesToRemove) > 0 THEN "remove_machines"
    ELSE PcAfterRemoval(d, ms)

\* ------------------------------------------------------- restartMachinesApp
RestartAcquireLeases ==
    /\ pc = "restart_acquire"
    /\ \E ok \in BOOLEAN :
         /\ acquireRuns' = Append(acquireRuns, ok)
         /\ IF ok
            THEN /\ leasesHeld' = TRUE
                 /\ refreshStarted' = TRUE
                 /\ updateEntries' =
                      [k \in 1..Len(machineSet) |->
                         [m |-> machineSet[k],
                          li |-> launchInputForRestart(machineSet[k])]]
                 /\ pc' = PcOfExecutor(updateEntries')
                 /\ idx' = 1
                 /\ err' = NoErr
            ELSE /\ ReturnEarly(Err("lease acquisition failed"))
                 /\ UNCHANGED <<leasesHeld, refreshStarted, updateEntries, idx>>
    /\ UNCHANGED <<inputs, machineSet, result, releaseCalls, relCmdRuns, diff,
                   toSpawn, lm, nextNew, existing, ops, statusWrites>>

\* --------------------------------------------------------- deployMachinesApp
\* Variant: the release command's error is dropped and the pass goes on.
RunReleaseCommand_IgnoresError ==
    /\ pc = "release_command"
    /\ \E ok \in BOOLEAN : relCmdRuns' = Append(relCmdRuns, ok)
    /\ pc' = "deploy_acquire"
    /\ UNCHANGED <<inputs, machineSet, err, result, leasesHeld, refreshStarted,
                   releaseCalls, acquireRuns, diff, toSpawn, idx, updateEntries,
                   lm, nextNew, existing, ops, statusWrites>>

RunReleaseCommand ==
    /\ pc = "release_command"
    /\ \E ok \in BOOLEAN :
         /\ relCmdRuns' = Append(relCmdRuns, ok)
         /\ IF ok
            THEN pc' = "deploy_acquire" /\ err' = NoErr
            ELSE ReturnEarly(Wrap("release command failed - aborting deployment",
                                  Err("release command error")))
    /\ UNCHANGED <<inputs, machineSet, result, leasesHeld, refreshStarted,
                   releaseCalls, acquireRuns, diff, toSpawn, idx, updateEntries,
                   lm, nextNew, existing, ops, statusWrites>>

\* AcquireLeases, the defer, StartBackgroundLeaseRefresh and the diff.
\* Variant: a failed lease acquisition does not stop the pass.
DeployAcquireLeases_IgnoresError ==
    /\ pc = "deploy_acquire"
    /\ \E ok \in BOOLEAN :
         /\ acquireRuns' = Append(acquireRuns, ok)
         /\ leasesHeld' = ok
         /\ refreshStarted' = TRUE
         /\ diff' = resolveProcessGroupChanges
         /\ toSpawn' = diff'.groupsNeedingMachines
         /\ pc' = PcAfterDiff(diff', machineSet)
         /\ idx' = 1
         /\ err' = NoErr
    /\ UNCHANGED <<inputs, machineSet, result, releaseCalls, relCmdRuns,
                   updateEntries, lm, nextNew, existing, ops, statusWrites>>

DeployAcquireLeases ==
    /\ pc = "deploy_acquire"
    /\ \E ok \in BOOLEAN :
         /\ acquireRuns' = Append(acquireRuns, ok)
         /\ IF ok
            THEN /\ leasesHeld' = TRUE
                 /\ refreshStarted' = TRUE
                 /\ diff' = resolveProcessGroupChanges
                 /\ toSpawn' = diff'.groupsNeedingMachines
                 /\ pc' = PcAfterDiff(diff', machineSet)
                 /\ idx' = 1
                 /\ err' = NoErr
            ELSE /\ ReturnEarly(Err("lease acquisition failed"))
                 /\ UNCHANGED <<leasesHeld, refreshStarted, diff, toSpawn, idx>>
    /\ UNCHANGED <<inputs, machineSet, result, releaseCalls, relCmdRuns,
                   updateEntries, lm, nextNew, existing, ops, statusWrites>>

\* The machine set without the given machines: what GetMachines() yields after
\* a successful machineSet.RemoveMachines.
RemoveFromSet(ms, removed) ==
    SelectSeq(ms, LAMBDA m : ~Contains(removed, m))

\* md.machineSet.RemoveMachines(ctx, machinesToRemove)
RemoveMachines ==
    /\ pc = "remove_machines"
    /\ \E ok \in BOOLEAN :
         IF ok
         THEN /\ machineSet' = RemoveFromSet(machineSet, diff.machinesToRemove)
              /\ pc' = "destroy_stale"
              /\ idx' = 1
              /\ err' = NoErr
         ELSE /\ Return(Err("remove machines failed"))
              /\ UNCHANGED <<machineSet, idx>>
    /\ UNCHANGED <<inputs, result, leasesHeld, refreshStarted, releaseCalls,
                   relCmdRuns,
                   acquireRuns, diff, toSpawn, updateEntries, lm, nextNew,
                   existing, ops, statusWrites>>

\* One iteration of the loop over machinesToRemove: machcmd.Destroy.
DestroyStale ==
    /\ pc = "destroy_stale"
    /\ LET mach == diff.machinesToRemove[idx] IN
       \E ok \in BOOLEAN :
         /\ ops' = Append(ops, Op("destroy", "remove", mach.ID, 0, ok, ""))
         /\ IF ok
            THEN /\ existing' = existing \ {mach.ID}
                 /\ err' = NoErr
                 /\ IF idx < Len(diff.machinesToRemove)
                    THEN pc' = "destroy_stale" /\ idx' = idx + 1
                    ELSE pc' = PcAfterRemoval(diff, machineSet) /\ idx' = 1
            ELSE /\ Return(Err("destroy failed"))
                 /\ UNCHANGED <<existing, idx>>
    /\ UNCHANGED <<inputs, machineSet, result, leasesHeld, refreshStarted,
                   releaseCalls, relCmdRuns,
                   acquireRuns, diff, toSpawn, updateEntries, lm,
                   nextNew, statusWrites>>


\* ------------------------------------------------------ spawnMachineInGroup
\* Variant: a created machine is never waited on.
SpawnWaits_Never(strat) == FALSE

\* if md.strategy != "immediate": the waits on a freshly created machine.
SpawnWaits(strat) == strat # "immediate"

\* Position after one spawnMachineInGroup returned nil: the range over
\* groupsNeedingMachines goes on while groups are left.
PcAfterOneSpawn(rest) ==
    IF rest # {} THEN "spawn" ELSE PcAfterSpawn(machineSet)

\* Variant: under "immediate" a failed creation is skipped and the range over
\* the groups goes on.
SpawnLaunch_BestEffort ==
    /\ pc = "spawn"
    /\ \E name \in toSpawn, cfgOk \in BOOLEAN, ok \in BOOLEAN :
         LET r == launchInputForLaunch(name, cfgOk)
             newId == NewMachineId(nextNew + 1)
             swallow == strategy = "immediate"
         IN
         /\ toSpawn' = toSpawn \ {name}
         /\ IF r.err # NoErr
            THEN /\ IF swallow
                    THEN pc' = PcAfterOneSpawn(toSpawn') /\ err' = NoErr
                    ELSE Return(Wrap("error creating machine configuration",
                                     r.err))
                 /\ UNCHANGED <<ops, existing, nextNew, lm>>
            ELSE /\ ops' = Append(ops, Op("launch", "create",
                                          IF ok THEN newId ELSE "", 0, ok,
                                          MountVolume(r.li)))
                 /\ IF ok
                    THEN /\ existing' = existing \cup {newId}
                         /\ nextNew' = nextNew + 1
                         /\ lm' = newId
                         /\ err' = NoErr
                         /\ pc' = IF SpawnWaits(strategy)
                                  THEN "spawn_wait_started"
                                  ELSE PcAfterOneSpawn(toSpawn')
                    ELSE /\ IF swallow
                            THEN pc' = PcAfterOneSpawn(toSpawn') /\ err' = NoErr
                            ELSE Return(Wrap("error creating a new machine",
                                             Err("launch failed")))
                         /\ UNCHANGED <<existing, nextNew, lm>>
    /\ UNCHANGED <<inputs, machineSet, result, leasesHeld, refreshStarted,
                   releaseCalls, relCmdRuns, acquireRuns, diff, idx,
                   updateEntries, statusWrites>>

\* One iteration of the range over groupsNeedingMachines (a Go map: any
\* order): launchInputForLaunch and flapsClient.Launch.
SpawnLaunch ==
    /\ pc = "spawn"
    /\ \E name \in toSpawn, cfgOk \in BOOLEAN, ok \in BOOLEAN :
         LET r == launchInputForLaunch(name, cfgOk)
             newId == NewMachineId(nextNew + 1)
         IN
         /\ toSpawn' = toSpawn \ {name}
         /\ IF r.err # NoErr
            THEN /\ Return(Wrap("error creating machine configuration", r.err))
                 /\ UNCHANGED <<ops, existing, nextNew, lm>>
            ELSE /\ ops' = Append(ops, Op("launch", "create",
                                          IF ok THEN newId ELSE "", 0, ok,
                                          MountVolume(r.li)))
                 /\ IF ok
                    THEN /\ existing' = existing \cup {newId}
                         /\ nextNew' = nextNew + 1
                         /\ lm' = newId
                         /\ err' = NoErr
                         /\ pc' = IF SpawnWaits(strategy)
                                  THEN "spawn_wait_started"
                                  ELSE PcAfterOneSpawn(toSpawn')
                    ELSE /\ Return(Wrap("error creating a new machine",
                                        Err("launch failed")))
                         /\ UNCHANGED <<existing, nextNew, lm>>
    /\ UNCHANGED <<inputs, machineSet, result, leasesHeld, refreshStarted,
                   releaseCalls, relCmdRuns,
                   acquireRuns, diff, idx, updateEntries,
                   statusWrites>>

\* newMachine.WaitForState(ctx, started, ...)
SpawnWaitStarted ==
    /\ pc = "spawn_wait_started"
    /\ \E ok \in BOOLEAN :
         /\ ops' = Append(ops, Op("wait_started", "create", lm, 0, ok, ""))
         /\ IF ok
            THEN /\ err' = NoErr
                 /\ pc' = IF SpawnWaits(strategy) /\ ~skipHealthChecks
                          THEN "spawn_wait_healthy"
                          ELSE PcAfterOneSpawn(toSpawn)
            ELSE Return(Err("wait for started timed out"))
    /\ UNCHANGED <<inputs, machineSet, result, leasesHeld, refreshStarted,
                   releaseCalls, relCmdRuns,
                   acquireRuns, diff, toSpawn, idx, updateEntries,
                   lm, nextNew, existing, statusWrites>>

\* newMachine.WaitForHealthchecksToPass(ctx, ...)
SpawnWaitHealthy ==
    /\ pc = "spawn_wait_healthy"
    /\ \E ok \in BOOLEAN :
         /\ ops' = Append(ops, Op("wait_healthy", "create", lm, 0, ok, ""))
         /\ IF ok
            THEN err' = NoErr /\ pc' = PcAfterOneSpawn(toSpawn)
            ELSE Return(Err("wait for healthchecks timed out"))
    /\ UNCHANGED <<inputs, machineSet, result, leasesHeld, refreshStarted,
                   releaseCalls, relCmdRuns,
                   acquireRuns, diff, toSpawn, idx, updateEntries,
                   lm, nextNew, existing, statusWrites>>

\* Variant: under "immediate" a machine whose input cannot be built is skipped.
BuildUpdateEntry_SkipsFailed ==
    /\ pc = "build_entry"
    /\ \E cfgOk \in BOOLEAN :
         LET r == launchInputForUpdate(machineSet[idx], cfgOk) IN
         /\ IF r.err # NoErr /\ strategy # "immediate"
            THEN /\ Return(Wrap("failed to update machine configuration", r.err))
                 /\ UNCHANGED <<updateEntries, idx>>
            ELSE /\ updateEntries' =
                      IF r.err # NoErr THEN updateEntries
                      ELSE Append(updateEntries,
                                  [m |-> machineSet[idx], li |-> r.li])
                 /\ err' = NoErr
                 /\ IF idx < Len(machineSet)
                    THEN pc' = "build_entry" /\ idx' = idx + 1
                    ELSE pc' = PcOfExecutor(updateEntries') /\ idx' = 1
    /\ UNCHANGED <<inputs, machineSet, result, leasesHeld, refreshStarted,
                   releaseCalls, relCmdRuns, acquireRuns, diff, toSpawn, lm,
                   nextNew, existing, ops, statusWrites>>

\* One iteration of the loop building machineUpdateEntries.
BuildUpdateEntry ==
    /\ pc = "build_entry"
    /\ \E cfgOk \in BOOLEAN :
         LET r == launchInputForUpdate(machineSet[idx], cfgOk) IN
         IF r.err # NoErr
         THEN /\ Return(Wrap("failed to update machine configuration", r.err))
              /\ UNCHANGED <<updateEntries, idx>>
         ELSE /\ updateEntries' =
                   Append(updateEntries, [m |-> machineSet[idx], li |-> r.li])
              /\ err' = NoErr
              /\ IF idx < Len(machineSet)
                 THEN pc' = "build_entry" /\ idx' = idx + 1
                 ELSE pc' = PcOfExecutor(updateEntries') /\ idx' = 1
    /\ UNCHANGED <<inputs, machineSet, result, leasesHeld, refreshStarted,
                   releaseCalls, relCmdRuns,
                   acquireRuns, diff, toSpawn, lm, nextNew,
                   existing, ops, statusWrites>>

\* ---------------------------------------------------- updateExistingMachines
\* Variant: errors are swallowed under every strategy.
AbortsOnError_Never(strat) == FALSE

\* Variant: errors abort under every strategy.
AbortsOnError_Always(strat) == TRUE

\* if md.strategy != "immediate" { return err }
AbortsOnError(strat) == strat # "immediate"

\* Variant: the executor never waits.
WaitsAfterEntry_Never(strat) == FALSE

\* if md.strategy == "immediate" { continue }: no wait under immediate.
WaitsAfterEntry(strat) == strat # "immediate"

\* `continue`, or the end of the loop body: the next entry, or return nil.
NextEntry ==
    IF idx < Len(updateEntries)
    THEN pc' = "update_entry" /\ idx' = idx + 1 /\ err' = NoErr
    ELSE Return(NoErr) /\ idx' = idx

\* After the replace or update branch of an entry.
AfterEntryOp ==
    IF WaitsAfterEntry(strategy)
    THEN pc' = "update_wait_started" /\ idx' = idx /\ err' = NoErr
    ELSE NextEntry

\* launchInput.ID != lm.Machine().ID: lm.Destroy(ctx, true)
UpdateDestroy ==
    /\ pc = "update_entry"
    /\ LET e == updateEntries[idx] IN
       /\ e.li.ID # e.m.ID
       /\ lm' = e.m.ID
       /\ \E ok \in BOOLEAN :
            /\ ops' = Append(ops, Op("destroy", "update", e.m.ID, idx, ok, ""))
            /\ existing' = IF ok THEN existing \ {e.m.ID} ELSE existing
            /\ IF ~ok /\ AbortsOnError(strategy)
               THEN Return(Err("destroy failed")) /\ idx' = idx
               ELSE pc' = "update_launch" /\ idx' = idx /\ err' = NoErr
    /\ UNCHANGED <<inputs, machineSet, result, leasesHeld, refreshStarted,
                   releaseCalls, relCmdRuns,
                   acquireRuns, diff, toSpawn, updateEntries,
                   nextNew, statusWrites>>

\* md.flapsClient.Launch(ctx, *launchInput) of the replace branch
UpdateLaunch ==
    /\ pc = "update_launch"
    /\ LET e == updateEntries[idx]
           newId == NewMachineId(nextNew + 1)
       IN
       \E ok \in BOOLEAN :
         /\ ops' = Append(ops, Op("launch", "update", IF ok THEN newId ELSE "",
                                  idx, ok, MountVolume(e.li)))
         /\ IF ok
            THEN /\ existing' = existing \cup {newId}
                 /\ nextNew' = nextNew + 1
                 /\ lm' = newId
                 /\ AfterEntryOp
            ELSE /\ UNCHANGED <<existing, nextNew, lm>>
                 /\ IF AbortsOnError(strategy)
                    THEN Return(Err("launch failed")) /\ idx' = idx
                    ELSE NextEntry
    /\ UNCHANGED <<inputs, machineSet, result, leasesHeld, refreshStarted,
                   releaseCalls, relCmdRuns,
                   acquireRuns, diff, toSpawn, updateEntries,
                   statusWrites>>

\* launchInput.ID == lm.Machine().ID: lm.Update(ctx, *launchInput)
UpdateInPlace ==
    /\ pc = "update_entry"
    /\ LET e == updateEntries[idx] IN
       /\ e.li.ID = e.m.ID
       /\ lm' = e.m.ID
       /\ \E ok \in BOOLEAN :
            /\ ops' = Append(ops, Op("update", "update", e.m.ID, idx, ok,
                                     MountVolume(e.li)))
            /\ IF ~ok /\ AbortsOnError(strategy)
               THEN Return(Err("update failed")) /\ idx' = idx
               ELSE AfterEntryOp
    /\ UNCHANGED <<inputs, machineSet, result, leasesHeld, refreshStarted,
                   releaseCalls, relCmdRuns,
                   acquireRuns, diff, toSpawn, updateEntries,
                   nextNew, existing, statusWrites>>

\* lm.WaitForState(ctx, started, ...)
UpdateWaitStarted ==
    /\ pc = "update_wait_started"
    /\ \E ok \in BOOLEAN :
         /\ ops' = Append(ops, Op("wait_started", "update", lm, idx, ok, ""))
         /\ IF ~ok
            THEN Return(Err("wait for started timed out")) /\ idx' = idx
            ELSE IF ~skipHealthChecks
                 THEN pc' = "update_wait_healthy" /\ idx' = idx /\ err' = NoErr
                 ELSE NextEntry
    /\ UNCHANGED <<inputs, machineSet, result, leasesHeld, refreshStarted,
                   releaseCalls, relCmdRuns,
                   acquireRuns, diff, toSpawn, updateEntries, lm,
                   nextNew, existing, statusWrites>>

\* lm.WaitForHealthchecksToPass(ctx, ...)
UpdateWaitHealthy ==
    /\ pc = "update_wait_healthy"
    /\ \E ok \in BOOLEAN :
         /\ ops' = Append(ops, Op("wait_healthy", "update", lm, idx, ok, ""))
         /\ IF ~ok
            THEN Return(Err("wait for healthchecks timed out")) /\ idx' = idx
            ELSE NextEntry
    /\ UNCHANGED <<inputs, machineSet, result, leasesHeld, refreshStarted,
                   releaseCalls, relCmdRuns,
                   acquireRuns, diff, toSpawn, updateEntries, lm,
                   nextNew, existing, statusWrites>>

\* ------------------------------------------------------------ specification
Next ==
    \/ UpdateReleaseRunning
    \/ RestartAcquireLeases
    \/ RunReleaseCommand
    \/ DeployAcquireLeases
    \/ RemoveMachines
    \/ DestroyStale
    \/ SpawnLaunch
    \/ SpawnWaitStarted
    \/ SpawnWaitHealthy
    \/ BuildUpdateEntry
    \/ UpdateDestroy
    \/ UpdateLaunch
    \/ UpdateInPlace
    \/ UpdateWaitStarted
    \/ UpdateWaitHealthy
    \/ ReleaseLeases
    \/ UpdateReleaseFinal

Spec == Init /\ [][Next]_vars

TypeOK ==
    /\ pc \in {"start", "restart_acquire", "release_command", "deploy_acquire",
               "remove_machines", "destroy_stale", "spawn", "spawn_wait_started",
               "spawn_wait_healthy", "build_entry", "update_entry",
               "update_launch", "update_wait_started", "update_wait_healthy",
               "release_leases", "final", "done"}
    /\ leasesHeld \in BOOLEAN
    /\ refreshStarted \in BOOLEAN
    /\ releaseCalls \in 0..1
    /\ Len(relCmdRuns) <= 1
    /\ Len(statusWrites) <= 2


\* ------------------------------------------- the update builder on its own
\* launchInputForUpdate applied to one machine, over every combination of
\* existing mount (none, name unknown, named), declared mount (none, same
\* name and path, same name and another path, another name, empty name) and
\* pool of unattached volumes.
BuildExistingMountChoices ==
    { NoMounts, <<Mount("", "/data", "vol_x")>>,
      <<Mount("v1", "/data", "vol_a")>> }

BuildDesiredMountChoices ==
    { NoMounts, <<Mount("v1", "/data", "")>>, <<Mount("v1", "/new", "")>>,
      <<Mount("v2", "/data", "")>>, <<Mount("", "/new", "")>> }

BuildPoolChoices ==
    { [n \in VolumeNames |-> << >>],
      [n \in VolumeNames |-> IF n = "v1" THEN <<"vol_b">> ELSE << >>],
      [n \in VolumeNames |-> IF n = "v1" THEN <<"vol_b">> ELSE <<"vol_c">>],
      [n \in VolumeNames |->
          IF n = "v1" THEN <<"vol_b", "vol_d">> ELSE <<"vol_c", "vol_e">>] }

InitBuild ==
    /\ restartOnly = FALSE
    /\ strategy = "rolling"
    /\ skipHealthChecks = FALSE
    /\ groupsInConfig = <<"web">>
    /\ desiredMounts \in BuildDesiredMountChoices
    /\ volumes \in BuildPoolChoices
    /\ machineSet \in { <<Machine(1, g, mounts)>> :
                          g \in MachineGroups,
                          mounts \in BuildExistingMountChoices }
    /\ pc = "builder"
    /\ err = NoErr
    /\ result = NoErr
    /\ leasesHeld = FALSE
    /\ refreshStarted = FALSE
    /\ releaseCalls = 0
    /\ relCmdRuns = << >>
    /\ acquireRuns = << >>
    /\ diff = EmptyDiff
    /\ toSpawn = {}
    /\ idx = 1
    /\ updateEntries = << >>
    /\ lm = ""
    /\ nextNew = 0
    /\ existing = { machineSet[k].ID : k \in 1..Len(machineSet) }
    /\ ops = << >>
    /\ statusWrites = << >>

\* li, err := md.launchInputForUpdate(lm.Machine())
BuildForUpdate ==
    /\ pc = "builder"
    /\ \E cfgOk \in BOOLEAN :
         LET r == launchInputForUpdate(machineSet[idx], cfgOk) IN
         /\ err' = r.err
         /\ updateEntries' = << [m |-> machineSet[idx], li |-> r.li] >>
    /\ pc' = "built"
    /\ UNCHANGED <<inputs, machineSet, result, leasesHeld, refreshStarted,
                   releaseCalls, relCmdRuns, acquireRuns, diff, toSpawn, idx,
                   lm, nextNew, existing, ops, statusWrites>>

NextBuild == BuildForUpdate

SpecBuild == InitBuild /\ [][NextBuild]_vars

\* ================================================================== claims
PassOver == pc \in {"release_leases", "final", "done"}

UpdateOps == SelectSeq(ops, LAMBDA o : o.phase = "update")
CreateOps == SelectSeq(ops, LAMBDA o : o.phase = "create")

\* The error the executor returns when the given call fails.
ErrOfOp(op) ==
    CASE op = "destroy" -> Err("destroy failed")
      [] op = "launch" -> Err("launch failed")
      [] op = "update" -> Err("update failed")
      [] op = "wait_started" -> Err("wait for started timed out")
      [] op = "wait_healthy" -> Err("wait for healthchecks timed out")

\* C1: when the "running" write succeeded, exactly one final status write is
\* attempted, after the pass has ended and as the last step of the run; it
\* writes "complete" iff the pass returned no error and "failed" iff it
\* returned an error.
C1_FinalStatusWrite ==
    /\ Len(statusWrites) <= 2
    /\ (Len(statusWrites) = 2) <=> (pc = "done" /\ statusWrites[1].ok)
    /\ Len(statusWrites) = 2 =>
         /\ statusWrites[1] = [status |-> "running", ok |-> TRUE]
         /\ (statusWrites[2].status = "complete") <=> (err = NoErr)
         /\ (statusWrites[2].status = "failed") <=> (err # NoErr)

\* A run whose pass failed after machine operations and wrote "failed".
C1_Witness ==
    /\ pc = "done"
    /\ Len(statusWrites) = 2
    /\ statusWrites[2].status = "failed"
    /\ ops # << >>

\* C2: when the final status write fails, a failed pass's error is returned
\* unchanged and a successful pass returns an error; the run returns nil only
\* if both the pass and the final status write succeeded.
C2_FinalWriteFailure ==
    (pc = "done" /\ Len(statusWrites) = 2) =>
        /\ (~statusWrites[2].ok /\ err # NoErr) => result = err
        /\ (~statusWrites[2].ok /\ err = NoErr) => result # NoErr
        /\ result = NoErr => (err = NoErr /\ statusWrites[2].ok)

\* A failed pass whose final status write failed as well.
C2_Witness ==
    /\ pc = "done"
    /\ Len(statusWrites) = 2
    /\ ~statusWrites[2].ok
    /\ err # NoErr
    /\ result = err

\* C3: a failed "running" write ends the run at once with an error and nothing
\* else done; and no release command, lease call or machine operation happens
\* without a successful "running" write before it.
C3_RunningWriteFailureAborts ==
    /\ (statusWrites # << >> /\ ~statusWrites[1].ok) =>
          /\ pc = "done"
          /\ result # NoErr
          /\ Len(statusWrites) = 1
          /\ relCmdRuns = << >>
          /\ acquireRuns = << >>
          /\ ~leasesHeld /\ ~refreshStarted /\ releaseCalls = 0
          /\ ops = << >>
    /\ (relCmdRuns # << >> \/ acquireRuns # << >> \/ ops # << >>
          \/ leasesHeld \/ refreshStarted \/ releaseCalls > 0) =>
          /\ statusWrites # << >>
          /\ statusWrites[1] = [status |-> "running", ok |-> TRUE]

\* The run that ended on a failed "running" write.
C3_Witness ==
    /\ pc = "done"
    /\ statusWrites = << [status |-> "running", ok |-> FALSE] >>

\* C4: a failed release command aborts the deploy pass before any mutation: no
\* lease call, no lease renewal, no machine operation; the final status
\* written is "failed".
C4_ReleaseCommandFailureAborts ==
    (relCmdRuns # << >> /\ ~relCmdRuns[1]) =>
        /\ acquireRuns = << >>
        /\ ~leasesHeld /\ ~refreshStarted /\ releaseCalls = 0
        /\ ops = << >>
        /\ existing = { machineSet[k].ID : k \in 1..Len(machineSet) }
        /\ pc \in {"final", "done"}
        /\ err # NoErr
        /\ pc = "done" =>
             (Len(statusWrites) = 2 /\ statusWrites[2].status = "failed")

\* The run that ended after a failed release command.
C4_Witness ==
    /\ pc = "done"
    /\ relCmdRuns = << FALSE >>
    /\ Len(machineSet) > 0

\* C5 as stated: every pass that got as far as the lease acquisition has
\* executed the lease release when it terminates, the abort in the lease
\* acquisition included.
C5_Original ==
    (pc \in {"final", "done"} /\ acquireRuns # << >>) => releaseCalls >= 1

\* C5 (amended): a pass whose lease acquisition succeeded has executed the
\* lease release exactly once when it terminates, on every exit path; a pass
\* whose acquisition failed, or that never reached it, never calls the lease
\* release; no lease is held outside a pass.
C5_LeasesReleasedAfterAcquire ==
    /\ (pc \in {"final", "done"} /\ acquireRuns = << TRUE >>) =>
          (releaseCalls = 1 /\ ~leasesHeld)
    /\ acquireRuns # << TRUE >> => (releaseCalls = 0 /\ ~leasesHeld)
    /\ releaseCalls <= 1
    /\ leasesHeld => pc \notin {"start", "final", "done"}

\* A pass that aborted on a failed machine operation and released its leases.
C5_Witness ==
    /\ pc = "done"
    /\ acquireRuns = << TRUE >>
    /\ releaseCalls = 1
    /\ err # NoErr
    /\ ops # << >>
    /\ ~ops[Len(ops)].ok

\* C6: under a strategy other than "immediate", a failed destroy, create,
\* update or wait of the executor is its last operation: the executor returns
\* that error and nothing follows for this entry or a later one.
C6_FailFast ==
    strategy # "immediate" =>
        \A i \in 1..Len(ops) :
            (ops[i].phase = "update" /\ ~ops[i].ok) =>
                /\ i = Len(ops)
                /\ PassOver
                /\ err = ErrOfOp(ops[i].op)

\* The first of several entries failed and the run ended.
C6_Witness ==
    /\ strategy # "immediate"
    /\ pc = "done"
    /\ Len(updateEntries) >= 2
    /\ ops # << >>
    /\ ops[Len(ops)].phase = "update"
    /\ ops[Len(ops)].entry = 1
    /\ ~ops[Len(ops)].ok

\* C7: under "immediate" the executor never returns an error: once it has
\* issued an operation the pass cannot fail, every entry gets an operation, in
\* order, and the final status is "complete".
C7_ImmediateBestEffort ==
    strategy = "immediate" =>
        /\ UpdateOps # << >> => err = NoErr
        /\ (PassOver /\ UpdateOps # << >>) =>
              /\ \A k \in 1..Len(updateEntries) :
                    \E i \in 1..Len(UpdateOps) :
                        /\ UpdateOps[i].entry = k
                        /\ UpdateOps[i].op \in {"destroy", "update"}
                        /\ UpdateOps[i].m = updateEntries[k].m.ID
              /\ \A i, j \in 1..Len(UpdateOps) :
                    i < j => UpdateOps[i].entry <= UpdateOps[j].entry
              /\ pc = "done" => statusWrites[2].status = "complete"

\* The first entry's operation failed, the second was attempted, and the run
\* returned nil.
C7_Witness ==
    /\ strategy = "immediate"
    /\ pc = "done"
    /\ result = NoErr
    /\ Len(updateEntries) >= 2
    /\ \E i \in 1..Len(UpdateOps) : UpdateOps[i].entry = 1 /\ ~UpdateOps[i].ok
    /\ \E i \in 1..Len(UpdateOps) : UpdateOps[i].entry = 2

\* C8: under "immediate", no create is issued for an entry whose destroy
\* failed.
C8_NoCreateAfterFailedDestroy ==
    strategy = "immediate" =>
        \A i \in 1..Len(ops) :
            (ops[i].phase = "update" /\ ops[i].op = "destroy" /\ ~ops[i].ok) =>
                \A j \in 1..Len(ops) :
                    ~(/\ ops[j].phase = "update"
                      /\ ops[j].op = "launch"
                      /\ ops[j].entry = ops[i].entry)

\* C9: under a strategy other than "immediate", a successful update or create
\* of the executor is followed by a wait-for-started on that machine, a
\* successful start wait by a health wait unless health checks are skipped,
\* and the next entry begins only after the last wait of the entry before it
\* succeeded; with health checks skipped the executor issues no health wait,
\* and under "immediate" no wait at all.
C9_SequentialHealthGated ==
    /\ strategy # "immediate" =>
         \A i \in 1..Len(UpdateOps) :
            LET o == UpdateOps[i]
                more == i < Len(UpdateOps)
            IN
            /\ i = 1 => o.entry = 1
            /\ (o.ok /\ o.op \in {"update", "launch"}) =>
                  IF more
                  THEN /\ UpdateOps[i + 1].op = "wait_started"
                       /\ UpdateOps[i + 1].entry = o.entry
                       /\ UpdateOps[i + 1].m = o.m
                  ELSE pc = "update_wait_started" /\ lm = o.m /\ idx = o.entry
            /\ (o.ok /\ o.op = "wait_started" /\ ~skipHealthChecks) =>
                  IF more
                  THEN /\ UpdateOps[i + 1].op = "wait_healthy"
                       /\ UpdateOps[i + 1].entry = o.entry
                       /\ UpdateOps[i + 1].m = o.m
                  ELSE pc = "update_wait_healthy" /\ lm = o.m /\ idx = o.entry
            /\ (more /\ UpdateOps[i + 1].entry # o.entry) =>
                  /\ UpdateOps[i + 1].entry = o.entry + 1
                  /\ o.ok
                  /\ o.op = IF skipHealthChecks THEN "wait_started"
                            ELSE "wait_healthy"
    /\ skipHealthChecks =>
         \A i \in 1..Len(UpdateOps) : UpdateOps[i].op # "wait_healthy"
    /\ strategy = "immediate" =>
         \A i \in 1..Len(UpdateOps) :
            UpdateOps[i].op \notin {"wait_started", "wait_healthy"}

\* Two entries, each updated or replaced and fully waited on.
C9_Witness ==
    /\ strategy # "immediate"
    /\ ~skipHealthChecks
    /\ pc = "done"
    /\ err = NoErr
    /\ Len(updateEntries) >= 2
    /\ \E i \in 1..Len(UpdateOps) :
          /\ UpdateOps[i].op = "wait_healthy"
          /\ UpdateOps[i].entry = 2
          /\ UpdateOps[i].ok

\* C10 as stated: under every strategy a machine created for an understaffed
\* group is waited on right after its creation.
C10_Original ==
    \A i \in 1..Len(ops) :
        (ops[i].phase = "create" /\ ops[i].op = "launch" /\ ops[i].ok) =>
            IF i < Len(ops)
            THEN /\ ops[i + 1].phase = "create"
                 /\ ops[i + 1].op = "wait_started"
                 /\ ops[i + 1].m = ops[i].m
            ELSE pc = "spawn_wait_started"

\* C10 (amended): under every strategy other than "immediate", a machine
\* created for an understaffed group is waited on until started and, unless
\* health checks are skipped, until healthy, before the next group's machine
\* is created and before the update phase begins; under "immediate" the
\* creation phase issues no wait.
C10_CreatedMachinesAwaited ==
    /\ strategy # "immediate" =>
         \A i \in 1..Len(ops) :
            LET o == ops[i]
                more == i < Len(ops)
            IN
            o.phase = "create" =>
              /\ (o.op = "launch" /\ o.ok) =>
                    IF more
                    THEN /\ ops[i + 1].phase = "create"
                         /\ ops[i + 1].op = "wait_started"
                         /\ ops[i + 1].m = o.m
                    ELSE pc = "spawn_wait_started" /\ lm = o.m
              /\ (o.op = "wait_started" /\ o.ok /\ ~skipHealthChecks) =>
                    IF more
                    THEN /\ ops[i + 1].phase = "create"
                         /\ ops[i + 1].op = "wait_healthy"
                         /\ ops[i + 1].m = o.m
                    ELSE pc = "spawn_wait_healthy" /\ lm = o.m
              /\ (more /\ (ops[i + 1].op = "launch" \/ ops[i + 1].phase = "update")) =>
                    /\ o.ok
                    /\ o.op = IF skipHealthChecks THEN "wait_started"
                              ELSE "wait_healthy"
    /\ strategy = "immediate" =>
         \A i \in 1..Len(CreateOps) : CreateOps[i].op = "launch"
    /\ skipHealthChecks =>
         \A i \in 1..Len(CreateOps) : CreateOps[i].op # "wait_healthy"

\* Two understaffed groups, each machine created and fully waited on.
C10_Witness ==
    /\ strategy # "immediate"
    /\ ~skipHealthChecks
    /\ Len(CreateOps) = 6
    /\ \A i \in 1..Len(CreateOps) : CreateOps[i].ok
    /\ CreateOps[4].op = "launch"

\* The declared groups for which a creation was started.
SpawnedGroups == diff.groupsNeedingMachines \ toSpawn

\* C11: creation is never best-effort.  Under every strategy a failed launch
\* of the creation phase is the last operation of the pass, which returns an
\* error: no machine is created for the groups left, no update entry is built,
\* the executor issues nothing and the final status is "failed".  The same
\* holds when the launch input cannot be built (config error, or no unattached
\* volume of the declared name).
C11_CreationNeverBestEffort ==
    /\ \A i \in 1..Len(ops) :
          (ops[i].phase = "create" /\ ops[i].op = "launch" /\ ~ops[i].ok) =>
              /\ i = Len(ops)
              /\ PassOver
              /\ err = Wrap("error creating a new machine", Err("launch failed"))
              /\ updateEntries = << >>
              /\ pc = "done" => statusWrites[2].status = "failed"
    /\ (err # NoErr /\ err[1] = "error creating machine configuration") =>
          /\ PassOver
          /\ UpdateOps = << >>
          /\ updateEntries = << >>
          /\ Len(SelectSeq(CreateOps, LAMBDA o : o.op = "launch"))
               = Cardinality(SpawnedGroups) - 1
          /\ pc = "done" => statusWrites[2].status = "failed"
    /\ (~restartOnly /\ SpawnedGroups # {}
          /\ launchInputForLaunch("web", TRUE).err # NoErr) =>
          /\ PassOver
          /\ err # NoErr
          /\ CreateOps = << >>
          /\ Cardinality(SpawnedGroups) = 1

\* Under "immediate", the first of two creations failed to launch and the run
\* ended with status "failed".
C11_Witness ==
    /\ strategy = "immediate"
    /\ pc = "done"
    /\ toSpawn # {}
    /\ ops # << >>
    /\ ops[Len(ops)].phase = "create"
    /\ ~ops[Len(ops)].ok
    /\ statusWrites[2].status = "failed"

RemoveOps == SelectSeq(ops, LAMBDA o : o.phase = "remove")

PhaseRank(p) ==
    CASE p = "remove" -> 1
      [] p = "create" -> 2
      [] p = "update" -> 3

\* C12: the deploy pass runs the release command, then acquires the leases,
\* then destroys the stale machines, then creates, then updates.  Every
\* destroy of a stale machine precedes every creation and every creation
\* precedes every update or replacement; the stale machines are destroyed in
\* the order of the diff and all of them before anything is created or an
\* update entry is built; a failed stale destroy ends the pass; no update
\* entry is about a machine of machinesToRemove.
C12_PhaseOrder ==
    ~restartOnly =>
        /\ acquireRuns # << >> => relCmdRuns = << TRUE >>
        /\ ops # << >> => acquireRuns = << TRUE >>
        /\ \A i, j \in 1..Len(ops) :
              i < j => PhaseRank(ops[i].phase) <= PhaseRank(ops[j].phase)
        /\ Len(RemoveOps) <= Len(diff.machinesToRemove)
        /\ \A k \in 1..Len(RemoveOps) :
              /\ RemoveOps[k].op = "destroy"
              /\ RemoveOps[k].m = diff.machinesToRemove[k].ID
              /\ ~RemoveOps[k].ok =>
                    /\ k = Len(ops)
                    /\ PassOver
                    /\ err # NoErr
                    /\ updateEntries = << >>
        /\ (CreateOps # << >> \/ UpdateOps # << >> \/ updateEntries # << >>) =>
              /\ Len(RemoveOps) = Len(diff.machinesToRemove)
              /\ \A k \in 1..Len(RemoveOps) : RemoveOps[k].ok
        /\ \A k \in 1..Len(updateEntries) :
              \A j \in 1..Len(diff.machinesToRemove) :
                  updateEntries[k].m.ID # diff.machinesToRemove[j].ID

\* A successful deploy pass that destroyed a stale machine, created one for an
\* understaffed group and updated a remaining one.
C12_Witness ==
    /\ ~restartOnly
    /\ pc = "done"
    /\ err = NoErr
    /\ RemoveOps # << >>
    /\ CreateOps # << >>
    /\ UpdateOps # << >>

\* C13: in the deploy pass the update inputs of all remaining machines are
\* built before the executor does anything.  When a build fails the pass has
\* returned an error and the executor has issued no operation, under every
\* strategy; when the executor has issued an operation, every machine of the
\* set has its entry, in order.
C13_BuildBeforeExecute ==
    ~restartOnly =>
        /\ (err # NoErr /\ err[1] = "failed to update machine configuration") =>
              /\ PassOver
              /\ UpdateOps = << >>
              /\ Len(updateEntries) < Len(machineSet)
              /\ pc = "done" => statusWrites[2].status = "failed"
        /\ (\E k \in 1..Len(machineSet) :
                launchInputForUpdate(machineSet[k], TRUE).err # NoErr) =>
              UpdateOps = << >>
        /\ UpdateOps # << >> =>
              /\ Len(updateEntries) = Len(machineSet)
              /\ \A k \in 1..Len(updateEntries) :
                    /\ updateEntries[k].m = machineSet[k]
                    /\ updateEntries[k].li =
                         launchInputForUpdate(machineSet[k], TRUE).li

\* Under "immediate", the input of the first machine was built, the build for
\* the second failed, and the run ended without any update.
C13_Witness ==
    /\ ~restartOnly
    /\ strategy = "immediate"
    /\ pc = "done"
    /\ err # NoErr
    /\ err[1] = "failed to update machine configuration"
    /\ Len(updateEntries) = 1
    /\ Len(machineSet) = 2
    /\ statusWrites[2].status = "failed"

\* The builder's inputs and output in a state of SpecBuild.
OrigMounts == machineSet[1].Mounts
BuiltInput == updateEntries[1].li
ConfigErr == Err("app config error")
VolumeUnavailable == Err("machine needs an unattached volume")

MountRemoved == Len(OrigMounts) > 0 /\ Len(desiredMounts) = 0
MountAdded == Len(OrigMounts) = 0 /\ Len(desiredMounts) > 0
BothMounts == Len(OrigMounts) > 0 /\ Len(desiredMounts) > 0
MountRenamed ==
    /\ BothMounts
    /\ OrigMounts[1].Name # ""
    /\ OrigMounts[1].Name # desiredMounts[1].Name

\* C14: a successful launchInputForUpdate returns the empty id exactly when a
\* mount is removed, a mount is added, or both are present and the known
\* (non-empty) existing name differs from the declared one; in every other
\* case it returns the existing machine's id.
C14_ReplacementDecision ==
    (pc = "built" /\ err = NoErr) =>
        /\ (BuiltInput.ID = "") <=> (MountRemoved \/ MountAdded \/ MountRenamed)
        /\ ~(MountRemoved \/ MountAdded \/ MountRenamed) =>
              BuiltInput.ID = machineSet[1].ID

\* A renamed mount with a volume available: replacement is forced.
C14_Witness ==
    /\ pc = "built"
    /\ err = NoErr
    /\ MountRenamed
    /\ BuiltInput.ID = ""

NamesDiffer == BothMounts /\ desiredMounts[1].Name # OrigMounts[1].Name
DesiredPool == VolumesNamed(desiredMounts[1].Name)

\* The outcome the rename rule prescribes: replacement on the first
\* unattached volume of the desired name, or VolumeUnavailable.
RenameOutcome ==
    IF Len(DesiredPool) > 0
    THEN /\ err = NoErr
         /\ BuiltInput.ID = ""
         /\ BuiltInput.Mounts[1].Volume = DesiredPool[1]
    ELSE /\ err = VolumeUnavailable
         /\ BuiltInput = NilInput

\* C15 as stated: whenever the desired mount name differs from the existing
\* one, the builder replaces the machine on the first pool volume of the
\* desired name, or fails with VolumeUnavailable when the pool has none.
C15_Original ==
    (pc = "built" /\ err # ConfigErr /\ NamesDiffer) => RenameOutcome

\* C15: when the machine's config is derived and the existing mount has a
\* known (non-empty) name that differs from the desired name, the builder
\* returns an empty id with the first pool volume of the desired name, or
\* fails with VolumeUnavailable and no launch input when the pool has none.
C15_RenamedMountTakesPoolVolume ==
    (pc = "built" /\ err # ConfigErr /\ MountRenamed) => RenameOutcome

\* A renamed mount served from a pool holding two volumes of the new name.
C15_Witness ==
    /\ pc = "built"
    /\ MountRenamed
    /\ Len(DesiredPool) > 1
    /\ err = NoErr
    /\ BuiltInput.ID = ""
    /\ BuiltInput.Mounts[1].Volume = DesiredPool[1]

SameNameNewPath ==
    /\ BothMounts
    /\ desiredMounts[1].Name = OrigMounts[1].Name
    /\ desiredMounts[1].Path # OrigMounts[1].Path

\* C16: when existing and desired mount share the volume name and only the
\* path differs, a builder whose config derivation succeeded returns the
\* existing (non-empty) id and the existing volume id whatever the pool
\* holds, and for a non-empty name the mount path is the desired path.
C16_PathChangeInPlace ==
    (pc = "built" /\ err # ConfigErr /\ SameNameNewPath) =>
        /\ err = NoErr
        /\ BuiltInput.ID = machineSet[1].ID
        /\ BuiltInput.ID # ""
        /\ BuiltInput.Mounts[1].Volume = OrigMounts[1].Volume
        /\ OrigMounts[1].Name # "" =>
              BuiltInput.Mounts[1].Path = desiredMounts[1].Path

\* A path change with no unattached volume of that name in the pool.
C16_Witness ==
    /\ pc = "built"
    /\ SameNameNewPath
    /\ OrigMounts[1].Name # ""
    /\ Len(DesiredPool) = 0
    /\ err = NoErr
    /\ BuiltInput.ID = machineSet[1].ID
    /\ BuiltInput.Mounts[1].Path = desiredMounts[1].Path

\* The launch inputs of a pass: those launched by the creation phase and
\* those built for the update plan.
LaunchInputs ==
    { <<"create", k>> : k \in { n \in 1..Len(ops) :
                                  ops[n].op = "launch" /\ ops[n].phase = "create" } }
    \cup { <<"update", i>> : i \in 1..Len(updateEntries) }

VolumeOf(x) ==
    IF x[1] = "create" THEN ops[x[2]].vol
    ELSE MountVolume(updateEntries[x[2]].li)

\* The ids of the unattached volumes of the pool.
PoolVolumeIds ==
    UNION { { volumes[n][k] : k \in 1..Len(volumes[n]) } : n \in DOMAIN volumes }

\* C17: an unattached volume is consumed when assigned: no volume id of the
\* pool is the mount volume of two different launch inputs of one pass.
C17_VolumeConsumedOnce ==
    \A x, y \in LaunchInputs :
        (x # y /\ VolumeOf(x) \in PoolVolumeIds) => VolumeOf(x) # VolumeOf(y)

\* States that show a freshly computed diff next to the machine set it was
\* computed from (the set is only changed by a successful RemoveMachines).
DiffComputed ==
    /\ ~restartOnly
    /\ acquireRuns = <<TRUE>>
    /\ pc = "remove_machines" \/ Len(diff.machinesToRemove) = 0

LiveMachines == { machineSet[k] : k \in 1..Len(machineSet) }
DeclaredGroups == { groupsInConfig[k] : k \in 1..Len(groupsInConfig) }
FlaggedMachines ==
    { diff.machinesToRemove[k] : k \in 1..Len(diff.machinesToRemove) }

RECURSIVE SumOver(_, _)
SumOver(f, S) ==
    IF S = {} THEN 0
    ELSE LET g == CHOOSE x \in S : TRUE IN f[g] + SumOver(f, S \ {g})

\* C18: machinesToRemove is exactly the live machines of undeclared groups,
\* each once; groupsToRemove counts the removed machines per group and its
\* counts sum to the number of removed machines; groupsNeedingMachines is
\* exactly the declared groups without a live machine, and is disjoint from
\* the groups of removed machines.
C18_DiffContract ==
    DiffComputed =>
        /\ FlaggedMachines = { m \in LiveMachines : m.Group \notin DeclaredGroups }
        /\ Cardinality(FlaggedMachines) = Len(diff.machinesToRemove)
        /\ DOMAIN diff.groupsToRemove = { m.Group : m \in FlaggedMachines }
        /\ \A g \in DOMAIN diff.groupsToRemove :
              diff.groupsToRemove[g] =
                  Cardinality({ m \in FlaggedMachines : m.Group = g })
        /\ SumOver(diff.groupsToRemove, DOMAIN diff.groupsToRemove)
              = Len(diff.machinesToRemove)
        /\ diff.groupsNeedingMachines =
              { g \in DeclaredGroups : \A m \in LiveMachines : m.Group # g }
        /\ diff.groupsNeedingMachines \cap DOMAIN diff.groupsToRemove = {}

\* One stale machine flagged next to a machine of a declared group that is
\* kept, while another declared group has no machine at all.
C18_Witness ==
    /\ DiffComputed
    /\ Len(diff.machinesToRemove) = 1
    /\ \E m \in LiveMachines : m.Group \in DeclaredGroups
    /\ diff.groupsNeedingMachines = {"worker"}

MutatingOps == {"destroy", "launch", "update"}

\* C19: every machine operation of a pass is issued while the pass holds its
\* leases, that is after a successful AcquireLeases and before ReleaseLeases;
\* a pass whose AcquireLeases failed returns that error without starting the
\* lease refresh and without a single machine operation.
C19_OpsUnderLeases ==
    /\ \A k \in 1..Len(ops) : ops[k].leased
    /\ ops # << >> => acquireRuns = <<TRUE>>
    /\ releaseCalls > 0 => pc \in {"final", "done"}
    /\ pc \in {"final", "done"} => ~leasesHeld
    /\ acquireRuns = <<FALSE>> =>
          /\ ~refreshStarted
          /\ ~leasesHeld
          /\ ops = << >>
          /\ err = Err("lease acquisition failed")
          /\ pc = "done" => result # NoErr

\* A finished deploy pass that destroyed a stale machine, created one and
\* updated one, all before its single lease release.
C19_Witness ==
    /\ pc = "done"
    /\ releaseCalls = 1
    /\ \E k \in 1..Len(ops) : ops[k].op = "destroy" /\ ops[k].phase = "remove"
    /\ \E k \in 1..Len(ops) : ops[k].op = "launch" /\ ops[k].phase = "create"
    /\ \E k \in 1..Len(ops) : ops[k].op = "update"

\* The positions in the log of the executor's Update calls.
UpdateCalls == { k \in 1..Len(ops) : ops[k].op = "update" }

\* C20: a restart pass runs no release command, computes no diff and neither
\* destroys nor creates a machine: each launch input carries its machine's
\* id and region, the executor issues in-place updates (and their waits) only,
\* at most one per live machine and in snapshot order, and the set of machine
\* ids stays what it was.
C20_RestartInPlace ==
    restartOnly =>
        /\ relCmdRuns = << >>
        /\ diff = EmptyDiff
        /\ toSpawn = {}
        /\ \A k \in 1..Len(ops) :
              /\ ops[k].phase = "update"
              /\ ops[k].op \in {"update", "wait_started", "wait_healthy"}
              /\ ops[k].m = machineSet[ops[k].entry].ID
        /\ \A i \in 1..Len(updateEntries) :
              /\ updateEntries[i].m = machineSet[i]
              /\ updateEntries[i].li.ID = machineSet[i].ID
              /\ updateEntries[i].li.ID # ""
              /\ updateEntries[i].li.Region = machineSet[i].Region
              /\ updateEntries[i].li.Mounts = machineSet[i].Mounts
        /\ Len(updateEntries) \in {0, Len(machineSet)}
        /\ \A j, k \in UpdateCalls : j < k => ops[j].entry < ops[k].entry
        /\ existing = { machineSet[k].ID : k \in 1..Len(machineSet) }
        /\ nextNew = 0

\* A finished restart pass that updated both machines of the snapshot.
C20_Witness ==
    /\ restartOnly
    /\ pc = "done"
    /\ Len(machineSet) = 2
    /\ Cardinality(UpdateCalls) = 2
    /\ Len(machineSet[1].Mounts) > 0

====
